---- MODULE Spec2Model ----
(***************************************************************************)
(* Model of algebra::gcd (gcd, xgcd) and signatures::ecdsa (pubkey, hash,  *)
(* sign, verify) of crypto-in-action.  All scalars are Rust i8.            *)
(***************************************************************************)
EXTENDS Integers, Sequences, FiniteSets, TLC

VARIABLES
    build,                  \* overflow discipline of the compiled crate
    in_a, in_b, pc,         \* a caller of xgcd and gcd: arguments and position
    xgcd_frame, xgcd_ret,   \* locals of the running xgcd call, and what it returned
    gcd_frame, gcd_ret,     \* locals of the running gcd call, and what it returned
    div_b, div_m, ipc,      \* a caller of mod_div and mod_mul
    div_ret, mul_ret,       \* what mod_div(1, b, m) and mod_mul(b, _, m) returned
    group,                  \* ECDSA.group
    message, private, randomk, epc,   \* a caller of pubkey, sign and verify
    pub, sig,               \* what pubkey and sign returned
    vin, vres               \* the (r, s) handed to verify, and its outcome

arith_vars == <<in_a, in_b, pc, xgcd_frame, xgcd_ret, gcd_frame, gcd_ret>>

inv_vars == <<div_b, div_m, ipc, div_ret, mul_ret>>

ecdsa_vars == <<group, message, private, randomk, epc, pub, sig, vin, vres>>

vars == <<build, arith_vars, inv_vars, ecdsa_vars>>

\* ------------------------------------------------------------------ i8 ----
I8_MIN == -128

I8_MAX == 127

I8 == I8_MIN..I8_MAX

\* The two overflow disciplines a Rust build can have: overflow-checks on
\* (debug profile: arithmetic overflow panics) or off (release: it wraps).
Builds == {"debug", "release"}

Abs(v) == IF v < 0 THEN -v ELSE v

InI8(v) == I8_MIN <= v /\ v <= I8_MAX

\* two's complement wrap of an integer into i8
wrap(v) == ((v - I8_MIN) % (I8_MAX - I8_MIN + 1)) + I8_MIN

\* Rust `/` on integers truncates toward zero
tdiv(n, d) == IF (n < 0) = (d < 0) THEN Abs(n) \div Abs(d) ELSE -(Abs(n) \div Abs(d))

\* Rust `%` on integers: the remainder has the sign of the dividend
trem(n, d) == n - d * tdiv(n, d)

\* `i8::MIN / -1` and `i8::MIN % -1` panic in every build profile
div_overflows(n, d) == n = I8_MIN /\ d = -1

\* ----------------------------------------------------------------- gcd ----
\* locals of gcd on entry
gcd_entry(a, b) == [a |-> a, b |-> b, st |-> "run"]

\* gcd_loop with the result normalised to a non-negative value
gcd_loop_normalised(f) ==
    IF div_overflows(f.a, f.b)
    THEN [f EXCEPT !.st = "panic"]
    ELSE [f EXCEPT !.a = Abs(f.b), !.b = trem(f.a, f.b)]

\* one iteration of `while b != 0 { a %= b; swap(a, b) }`
gcd_loop(f) ==
    IF div_overflows(f.a, f.b)
    THEN [f EXCEPT !.st = "panic"]
    ELSE [f EXCEPT !.a = f.b, !.b = trem(f.a, f.b)]

\* ---------------------------------------------------------------- xgcd ----
\* xgcd_entry with the seeds of the s and t recurrences exchanged
xgcd_entry_swapped_seeds(a, b) ==
    [sj |-> 1, sj_last |-> 0, tj |-> 0, tj_last |-> 1, rj |-> b, rj_last |-> a,
     st |-> "run", ok |-> TRUE]

\* locals of xgcd on entry; `ok` records that no computed value left i8
xgcd_entry(a, b) ==
    [sj |-> 0, sj_last |-> 1, tj |-> 1, tj_last |-> 0, rj |-> b, rj_last |-> a,
     st |-> "run", ok |-> TRUE]

\* xgcd_loop with the quotient rounded toward minus infinity
xgcd_loop_floor(f, bld) ==
    IF div_overflows(f.rj_last, f.rj)
    THEN [f EXCEPT !.st = "panic", !.ok = FALSE]
    ELSE
      LET t == tdiv(f.rj_last, f.rj)
          quotient == IF t * f.rj # f.rj_last /\ (f.rj_last < 0) # (f.rj < 0)
                      THEN t - 1 ELSE t
          qr == quotient * f.rj
          qs == quotient * f.sj
          qt == quotient * f.tj
          nr == f.rj_last - wrap(qr)
          ns == f.sj_last - wrap(qs)
          nt == f.tj_last - wrap(qt)
          fits == InI8(qr) /\ InI8(qs) /\ InI8(qt) /\ InI8(nr) /\ InI8(ns) /\ InI8(nt)
      IN  IF ~fits /\ bld = "debug"
          THEN [f EXCEPT !.st = "panic", !.ok = FALSE]
          ELSE [f EXCEPT !.rj = wrap(nr), !.rj_last = f.rj,
                         !.sj = wrap(ns), !.sj_last = f.sj,
                         !.tj = wrap(nt), !.tj_last = f.tj,
                         !.ok = f.ok /\ fits]

\* one iteration of the while loop of xgcd
xgcd_loop(f, bld) ==
    IF div_overflows(f.rj_last, f.rj)
    THEN [f EXCEPT !.st = "panic", !.ok = FALSE]
    ELSE
      LET quotient == tdiv(f.rj_last, f.rj)
          qr == quotient * f.rj
          qs == quotient * f.sj
          qt == quotient * f.tj
          nr == f.rj_last - wrap(qr)
          ns == f.sj_last - wrap(qs)
          nt == f.tj_last - wrap(qt)
          fits == InI8(qr) /\ InI8(qs) /\ InI8(qt) /\ InI8(nr) /\ InI8(ns) /\ InI8(nt)
      IN  IF ~fits /\ bld = "debug"
          THEN [f EXCEPT !.st = "panic", !.ok = FALSE]
          ELSE [f EXCEPT !.rj = wrap(nr), !.rj_last = f.rj,
                         !.sj = wrap(ns), !.sj_last = f.sj,
                         !.tj = wrap(nt), !.tj_last = f.tj,
                         !.ok = f.ok /\ fits]

NoRet == [st |-> "none", g |-> 0, x |-> 0, y |-> 0]

Panicked == [st |-> "panic", g |-> 0, x |-> 0, y |-> 0]

\* xgcd_result returning the current remainder instead of the last one
xgcd_result_current(f) == [st |-> "ok", g |-> f.rj, x |-> f.sj_last, y |-> f.tj_last]

\* the tuple returned at the end of xgcd
xgcd_result(f) == [st |-> "ok", g |-> f.rj_last, x |-> f.sj_last, y |-> f.tj_last]

NoVal == [st |-> "none", v |-> 0]

\* xgcd as its callers see it: the loop run to its end
RECURSIVE xgcd_run(_, _)
xgcd_run(f, bld) ==
    IF f.st = "panic" THEN Panicked
    ELSE IF f.rj = 0 THEN xgcd_result(f)
    ELSE xgcd_run(xgcd_loop(f, bld), bld)

xgcd(a, b, bld) == xgcd_run(xgcd_entry(a, b), bld)

\* --------------------------------------------------------- algebra::arith ----
\* (a + b) mod m, normalised into [0, m)
mod_add(a, b, m) == (a + b) % m

\* (a * b) mod m, normalised into [0, m)
mod_mul(a, b, m) == (a * b) % m

Failed == [st |-> "fail", v |-> 0]

\* a * inverse(b, m) mod m, the inverse being the x of xgcd(b, m) reduced into
\* [0, m); fails when b shares a factor with m
mod_div(a, b, m, bld) ==
    LET e == xgcd(b, m, bld)
    IN  IF e.st # "ok" \/ Abs(e.g) # 1
        THEN Failed
        ELSE [st |-> "ok", v |-> mod_mul(a, e.x % m, m)]

\* --------------------------------------------- curves, subgroups (group) ----
\* Cyclic groups of prime order on the clock curve x^2 + y^2 = 1 over F_p: the
\* curve with its base point, and the order of that point.
Groups ==
    { [curve |-> [p |-> 11, g |-> <<3, 5>>], g |-> <<3, 5>>, n |-> 3],
      [curve |-> [p |-> 19, g |-> <<3, 7>>], g |-> <<3, 7>>, n |-> 5],
      [curve |-> [p |-> 29, g |-> <<5, 18>>], g |-> <<5, 18>>, n |-> 7] }

Neutral == <<0, 1>>

order(grp) == grp.n

\* point addition
scalar_add(crv, p1, p2) ==
    << (p1[1] * p2[2] + p2[1] * p1[2]) % crv.p,
       (p1[2] * p2[2] - p1[1] * p2[1]) % crv.p >>

\* k-fold addition of a point to itself, k >= 0
RECURSIVE scalar_mul(_, _, _)
scalar_mul(crv, pt, k) ==
    IF k = 0 THEN Neutral ELSE scalar_add(crv, scalar_mul(crv, pt, k - 1), pt)

curve_scalar_basemul(crv, k) == scalar_mul(crv, crv.g, k)

group_scalar_basemul(grp, k) == scalar_mul(grp.curve, grp.g, k)

\* --------------------------------------------------------------- ECDSA ----
pubkey(grp, pk) == curve_scalar_basemul(grp.curve, pk)

hash(msg) == msg

NoSig == [st |-> "none", r |-> 0, s |-> 0]

sign(grp, msg, priv, k, bld) ==
    LET m == order(grp)
        z == hash(msg)
        r == group_scalar_basemul(grp, k)[1]
        kinverse == mod_div(1, k, m, bld)
    IN  IF kinverse.st # "ok"
        THEN [st |-> "fail", r |-> 0, s |-> 0]
        ELSE [st |-> "ok", r |-> r,
              s |-> mod_mul(mod_add(z, mod_mul(r, priv, m), m), kinverse.v, m)]

\* verify answering false when mod_div fails, instead of failing itself
verify_swallowing(grp, msg, pk, r, s, bld) ==
    LET m == order(grp)
        z == hash(msg)
        sinverse == mod_div(1, s, m, bld)
    IN  IF sinverse.st # "ok"
        THEN "false"
        ELSE LET p1 == group_scalar_basemul(grp, mod_mul(z, sinverse.v, m))
                 p2 == scalar_mul(grp.curve, pk, mod_mul(r, sinverse.v, m))
             IN  IF scalar_add(grp.curve, p1, p2)[1] = r THEN "true" ELSE "false"

\* "true" / "false": the boolean returned; "fail": the call did not return
verify(grp, msg, pk, r, s, bld) ==
    LET m == order(grp)
        z == hash(msg)
        sinverse == mod_div(1, s, m, bld)
    IN  IF sinverse.st # "ok"
        THEN "fail"
        ELSE LET p1 == group_scalar_basemul(grp, mod_mul(z, sinverse.v, m))
                 p2 == scalar_mul(grp.curve, pk, mod_mul(r, sinverse.v, m))
             IN  IF scalar_add(grp.curve, p1, p2)[1] = r THEN "true" ELSE "false"

\* ------------------------------------------------------------- bounds ----
MaxMessage == 10

MaxPrivate == 7

MaxNonce == 8

MaxForgedR == 2

MaxForgedS == 14

\* -------------------------------------------------------- idle callers ----
IdleArith ==
    /\ in_a = 0 /\ in_b = 0 /\ pc = "idle"
    /\ xgcd_frame = xgcd_entry(0, 0) /\ xgcd_ret = NoRet
    /\ gcd_frame = gcd_entry(0, 0) /\ gcd_ret = NoVal

IdleInv ==
    /\ div_b = 0 /\ div_m = 0 /\ ipc = "idle"
    /\ div_ret = NoVal /\ mul_ret = NoVal

IdleEcdsa ==
    /\ group = [curve |-> [p |-> 0, g |-> Neutral], g |-> Neutral, n |-> 0]
    /\ message = 0 /\ private = 0 /\ randomk = 0 /\ epc = "idle"
    /\ pub = Neutral /\ sig = NoSig
    /\ vin = [r |-> 0, s |-> 0] /\ vres = "none"

\* ------------------------------------------------------ arithmetic runs ----
\* A caller evaluates xgcd(in_a, in_b) and then gcd(in_a, in_b).
InitArith ==
    /\ build \in Builds
    /\ in_a \in I8
    /\ in_b \in I8
    /\ pc = "xgcd"
    /\ xgcd_frame = xgcd_entry(in_a, in_b)
    /\ xgcd_ret = NoRet
    /\ gcd_frame = gcd_entry(in_a, in_b)
    /\ gcd_ret = NoVal
    /\ IdleInv
    /\ IdleEcdsa

XgcdLoop ==
    /\ pc = "xgcd"
    /\ xgcd_frame.st = "run"
    /\ xgcd_frame.rj # 0
    /\ xgcd_frame' = xgcd_loop(xgcd_frame, build)
    /\ UNCHANGED <<build, in_a, in_b, pc, xgcd_ret, gcd_frame, gcd_ret, inv_vars, ecdsa_vars>>

XgcdPanic ==
    /\ pc = "xgcd"
    /\ xgcd_frame.st = "panic"
    /\ xgcd_ret' = Panicked
    /\ pc' = "gcd"
    /\ UNCHANGED <<build, in_a, in_b, xgcd_frame, gcd_frame, gcd_ret, inv_vars, ecdsa_vars>>

XgcdReturn ==
    /\ pc = "xgcd"
    /\ xgcd_frame.st = "run"
    /\ xgcd_frame.rj = 0
    /\ xgcd_ret' = xgcd_result(xgcd_frame)
    /\ pc' = "gcd"
    /\ UNCHANGED <<build, in_a, in_b, xgcd_frame, gcd_frame, gcd_ret, inv_vars, ecdsa_vars>>

GcdLoop ==
    /\ pc = "gcd"
    /\ gcd_frame.st = "run"
    /\ gcd_frame.b # 0
    /\ gcd_frame' = gcd_loop(gcd_frame)
    /\ UNCHANGED <<build, in_a, in_b, pc, xgcd_frame, xgcd_ret, gcd_ret, inv_vars, ecdsa_vars>>

GcdPanic ==
    /\ pc = "gcd"
    /\ gcd_frame.st = "panic"
    /\ gcd_ret' = [st |-> "panic", v |-> 0]
    /\ pc' = "done"
    /\ UNCHANGED <<build, in_a, in_b, xgcd_frame, xgcd_ret, gcd_frame, inv_vars, ecdsa_vars>>

GcdReturn ==
    /\ pc = "gcd"
    /\ gcd_frame.st = "run"
    /\ gcd_frame.b = 0
    /\ gcd_ret' = [st |-> "ok", v |-> gcd_frame.a]
    /\ pc' = "done"
    /\ UNCHANGED <<build, in_a, in_b, xgcd_frame, xgcd_ret, gcd_frame, inv_vars, ecdsa_vars>>

NextArith ==
    \/ XgcdLoop
    \/ XgcdPanic
    \/ XgcdReturn
    \/ GcdLoop
    \/ GcdPanic
    \/ GcdReturn

Spec == InitArith /\ [][NextArith]_vars

\* ------------------------------------------------- claims: gcd and xgcd ----
\* C1: for every i8 pair (a, b) with at least one nonzero, xgcd(a, b) returns
\* a triple (g, x, y) with a*x + b*y = g over the integers and g dividing
\* both a and b.
C1_XgcdBezoutEveryI8Pair ==
    (pc # "xgcd" /\ (in_a # 0 \/ in_b # 0)) =>
        /\ xgcd_ret.st = "ok"
        /\ in_a * xgcd_ret.x + in_b * xgcd_ret.y = xgcd_ret.g
        /\ xgcd_ret.g # 0
        /\ Abs(in_a) % Abs(xgcd_ret.g) = 0
        /\ Abs(in_b) % Abs(xgcd_ret.g) = 0

\* C4: for every i8 value a, gcd(a, 0) = a and gcd(0, a) = a, the sign of a
\* kept as it is.
C4_GcdWithZero ==
    pc = "done" =>
        /\ in_b = 0 => gcd_ret = [st |-> "ok", v |-> in_a]
        /\ in_a = 0 => gcd_ret = [st |-> "ok", v |-> in_b]

C4_Witness ==
    pc = "done" /\ in_a = 0 /\ in_b = I8_MIN /\ gcd_ret = [st |-> "ok", v |-> I8_MIN]

\* C5: gcd(37, 14) returns 1 and xgcd(37, 14) returns (1, -3, 8), and no
\* value computed on the way leaves the i8 range (no panic in a debug build).
C5_DocumentedExample ==
    (in_a = 37 /\ in_b = 14) =>
        /\ xgcd_frame.ok
        /\ xgcd_frame.st = "run"
        /\ gcd_frame.st = "run"
        /\ pc # "xgcd" => xgcd_ret = [st |-> "ok", g |-> 1, x |-> -3, y |-> 8]
        /\ pc = "done" => gcd_ret = [st |-> "ok", v |-> 1]

C5_Witness ==
    /\ in_a = 37 /\ in_b = 14 /\ build = "debug" /\ pc = "done"
    /\ xgcd_ret.st = "ok" /\ gcd_ret.st = "ok"

\* C8: whenever xgcd(a, b) and gcd(a, b) both complete, the g of xgcd equals
\* gcd(a, b) up to sign.
C8_XgcdAgreesWithGcd ==
    (pc = "done" /\ xgcd_ret.st = "ok" /\ gcd_ret.st = "ok") =>
        Abs(xgcd_ret.g) = Abs(gcd_ret.v)

C8_Witness ==
    /\ pc = "done" /\ xgcd_ret.st = "ok" /\ gcd_ret.st = "ok"
    /\ in_a # 0 /\ in_b # 0 /\ xgcd_ret.g = -6

\* C9: for every i8 pair the loop of gcd ends by returning a value, ...
C9_GcdReturnsForEveryI8Pair ==
    pc = "done" => gcd_ret.st = "ok"

\* ... each iteration replacing (a, b) by (b, a mod b) with |b| strictly
\* smaller than before.
C9_GcdMagnitudeDecreases ==
    [][(pc = "gcd" /\ gcd_frame.st = "run" /\ gcd_frame'.st = "run"
          /\ gcd_frame' # gcd_frame) =>
            /\ gcd_frame'.a = gcd_frame.b
            /\ gcd_frame'.b = trem(gcd_frame.a, gcd_frame.b)
            /\ Abs(gcd_frame'.b) < Abs(gcd_frame.b)]_vars

\* the loop of xgcd on unbounded integers
RECURSIVE xgcd_unbounded(_, _, _, _, _, _)
xgcd_unbounded(rj, rj_last, sj, sj_last, tj, tj_last) ==
    IF rj = 0
    THEN [st |-> "ok", g |-> rj_last, x |-> sj_last, y |-> tj_last]
    ELSE LET quotient == tdiv(rj_last, rj)
         IN  xgcd_unbounded(rj_last - quotient * rj, rj,
                            sj_last - quotient * sj, sj,
                            tj_last - quotient * tj, tj)

\* C10: for a, b in [-127, 127] every value computed inside xgcd(a, b) stays
\* within i8, and the result is that of the algorithm on unbounded integers.
C10_XgcdSymmetricRangeFits ==
    (Abs(in_a) <= I8_MAX /\ Abs(in_b) <= I8_MAX) =>
        /\ xgcd_frame.ok
        /\ pc # "xgcd" => xgcd_ret = xgcd_unbounded(in_b, in_a, 0, 1, 1, 0)

C10_Witness ==
    /\ in_a = -I8_MAX /\ in_b = 2 /\ build = "debug" /\ pc = "done"
    /\ xgcd_ret.st = "ok" /\ xgcd_frame.tj = I8_MAX /\ xgcd_frame.ok

\* ------------------------------------------------------- inverse runs ----
\* A caller evaluates inv = mod_div(1, b, m) and then mod_mul(b, inv, m).
InitInverse ==
    /\ build \in Builds
    /\ div_b \in I8
    /\ div_m \in {mm \in I8 : mm > 1}
    /\ ipc = "mod_div"
    /\ div_ret = NoVal
    /\ mul_ret = NoVal
    /\ IdleArith
    /\ IdleEcdsa

ModDiv ==
    /\ ipc = "mod_div"
    /\ div_ret' = mod_div(1, div_b, div_m, build)
    /\ ipc' = "mod_mul"
    /\ UNCHANGED <<build, arith_vars, div_b, div_m, mul_ret, ecdsa_vars>>

ModMul ==
    /\ ipc = "mod_mul"
    /\ div_ret.st = "ok"
    /\ mul_ret' = [st |-> "ok", v |-> mod_mul(div_b, div_ret.v, div_m)]
    /\ ipc' = "done"
    /\ UNCHANGED <<build, arith_vars, div_b, div_m, div_ret, ecdsa_vars>>

ModDivFailed ==
    /\ ipc = "mod_mul"
    /\ div_ret.st # "ok"
    /\ mul_ret' = Failed
    /\ ipc' = "done"
    /\ UNCHANGED <<build, arith_vars, div_b, div_m, div_ret, ecdsa_vars>>

NextInverse ==
    \/ ModDiv
    \/ ModMul
    \/ ModDivFailed

SpecInverse == InitInverse /\ [][NextInverse]_vars

\* --------------------------------------------------------- ECDSA runs ----
\* A caller derives the public key, signs, and calls verify, either on the
\* signature it got or on an (r, s) of its own.
InitECDSA ==
    /\ build \in Builds
    /\ group \in Groups
    /\ message \in 0..MaxMessage
    /\ private \in 0..MaxPrivate
    /\ randomk \in 0..MaxNonce
    /\ epc = "pubkey"
    /\ pub = Neutral
    /\ sig = NoSig
    /\ vin = [r |-> 0, s |-> 0]
    /\ vres = "none"
    /\ IdleArith
    /\ IdleInv

Pubkey ==
    /\ epc = "pubkey"
    /\ pub' = pubkey(group, private)
    /\ epc' = "sign"
    /\ UNCHANGED <<build, arith_vars, inv_vars, group, message, private, randomk, sig, vin, vres>>

Sign ==
    /\ epc = "sign"
    /\ sig' = sign(group, message, private, randomk, build)
    /\ epc' = "verify"
    /\ UNCHANGED <<build, arith_vars, inv_vars, group, message, private, randomk, pub, vin, vres>>

Verify ==
    /\ epc = "verify"
    /\ sig.st = "ok"
    /\ vin' = [r |-> sig.r, s |-> sig.s]
    /\ vres' = verify(group, message, pub, sig.r, sig.s, build)
    /\ epc' = "done"
    /\ UNCHANGED <<build, arith_vars, inv_vars, group, message, private, randomk, pub, sig>>

VerifyForged ==
    /\ epc = "verify"
    /\ \E r \in 0..MaxForgedR, s \in (-MaxForgedS)..MaxForgedS :
          /\ vin' = [r |-> r, s |-> s]
          /\ vres' = verify(group, message, pub, r, s, build)
    /\ epc' = "done"
    /\ UNCHANGED <<build, arith_vars, inv_vars, group, message, private, randomk, pub, sig>>

NextECDSA ==
    \/ Pubkey
    \/ Sign
    \/ Verify
    \/ VerifyForged

SpecECDSA == InitECDSA /\ [][NextECDSA]_vars

\* a and b have no common factor above 1
Coprime(a, b) == \A d \in 2..I8_MAX + 1 : ~(Abs(a) % d = 0 /\ Abs(b) % d = 0)

\* ------------------------------------------- claims: arith and ECDSA ----
\* C2: for every message, private key d and nonce k coprime to the group
\* order, verify(msg, pubkey(d), r, s) on (r, s) = sign(msg, d, k) returns true.
C2_SignVerifyRoundTrip ==
    (epc = "done" /\ Coprime(randomk, order(group)) /\ sig.st = "ok"
        /\ vin = [r |-> sig.r, s |-> sig.s]) => vres = "true"

\* The round trip of C2 on every signature whose s is not 0.
RoundTripWhenSNonzero ==
    (epc = "done" /\ sig.st = "ok" /\ sig.s # 0
        /\ vin = [r |-> sig.r, s |-> sig.s]) => vres = "true"

\* C3: for every coprime b and m, mod_mul(b, mod_div(1, b, m), m) = 1.
C3_InverseRoundTrip ==
    (ipc = "done" /\ Coprime(div_b, div_m)) => mul_ret = [st |-> "ok", v |-> 1]

\* The round trip of C3 on every b >= 0, and what it gives for b = -1, m = 7.
InverseRoundTripNonNegative ==
    /\ (ipc = "done" /\ Coprime(div_b, div_m) /\ div_b >= 0) =>
            mul_ret = [st |-> "ok", v |-> 1]
    /\ (ipc = "done" /\ div_b = -1 /\ div_m = 7) =>
            mul_ret = [st |-> "ok", v |-> 6]

\* C6: whenever sign completes, 0 <= r < n and 0 <= s < n for the group
\* order n.
C6_SignatureReduced ==
    sig.st = "ok" =>
        /\ 0 <= sig.r /\ sig.r < order(group)
        /\ 0 <= sig.s /\ sig.s < order(group)

====
